---- MODULE Spec2Model ----
(***************************************************************************)
(* Retrieval engine of the FTC AI Workbench: the lifecycle controller and  *)
(* in-memory index of lib/rag/query.ts and the ingestion cache of          *)
(* lib/rag/ingest.ts.                                                      *)
(*                                                                         *)
(* Every await of the code is a point where the event loop may run other   *)
(* requests; the code between two awaits runs atomically.  A promise's     *)
(* .catch/.finally handlers and the resumption of its awaiters run in the  *)
(* same microtask drain as the settlement, so they belong to the action    *)
(* that settles the promise.                                               *)
(***************************************************************************)
EXTENDS Integers, Sequences, FiniteSets, TLC

VARIABLES
    documentStore,   \* query.ts: let documentStore: FTCDocument[]
    chunkStore,      \* query.ts: let chunkStore: DocumentChunk[] (the elements)
    chunkArr,        \* identity of the array object chunkStore refers to
    isInitialized,   \* query.ts: let isInitialized
    initPromise,     \* query.ts: let initPromise; 0 = null, r = promise of run r
    embeddings,      \* query.ts: let embeddings; TRUE = an OpenAIEmbeddings object
    useEmbeddings,   \* query.ts: let useEmbeddings
    snapshot,        \* ingest.ts: the file at DOCUMENTS_CACHE_PATH
    runs,            \* the invocations of runInitialization, in start order
    calls,           \* the calls of ensureRAGInitialized / initializeRAG
    query,           \* the latest invocation of queryRAG
    adds,            \* the invocations of addUserRepository
    repoArchiveCache,\* ingest.ts: const repoArchiveCache, the keys it holds
    requests,        \* the archive downloads the latest fetchGitHubContent asked for
    ingest,          \* an invocation of ingestAllSources, source by source
    chunker,         \* an invocation of chunkText, iteration by iteration
    formatter        \* an invocation of formatContextForPrompt, document by document

vars == <<documentStore, chunkStore, chunkArr, isInitialized, initPromise,
          embeddings, useEmbeddings, snapshot, runs, calls, query, adds,
          repoArchiveCache, requests, ingest, chunker, formatter>>

indexVars == <<documentStore, chunkStore, chunkArr, isInitialized, initPromise,
               embeddings, useEmbeddings>>

(* The lifecycle specification Spec takes a fetch pass by its outcome and  *)
(* a chunking by its result; the steps inside them are the subject of the  *)
(* specifications SpecIngest and SpecChunk, which move these variables;    *)
(* SpecFormat steps through the formatting of a result.                    *)
stepVars == <<repoArchiveCache, requests, ingest, chunker, formatter>>

----------------------------------------------------------------------------
(* Bounds of the model *)

MaxRuns == 2
MaxCalls == 2
MaxAdds == 1

(* Program constants *)

CHUNK_SIZE == 1000
CHUNK_OVERLAP == 200
DEFAULT_TOP_K == 10
batchSize == 100
LIMELIGHT == 5

Min(a, b) == IF a < b THEN a ELSE b

Range(s) == {s[i] : i \in 1..Len(s)}

RECURSIVE SelectIdx(_, _, _)
SelectIdx(s, keep, i) ==
    IF i > Len(s) THEN <<>>
    ELSE (IF i \in keep THEN <<s[i]>> ELSE <<>>) \o SelectIdx(s, keep, i + 1)

----------------------------------------------------------------------------
(* The source catalog, cut down to one top-team repository and one         *)
(* official source; a successful fetch of a source yields one document,    *)
(* whose text length is ContentLength of its id.                           *)

TOP_TEAM_REPOS == << [id |-> 1, priority |-> 2] >>

FTC_SOURCES == << [id |-> 2, priority |-> LIMELIGHT] >>

SourceIds == {1, 2}

ContentLength(id) == IF id = 1 THEN 1000 ELSE 800

(* JSON.stringify turns the Date of lastUpdated into an ISO string and      *)
(* JSON.parse leaves it a string.                                          *)
Stringify(docs) ==
    [i \in 1..Len(docs) |->
        [docs[i] EXCEPT !.lastUpdated = [form |-> "ISO", t |-> docs[i].lastUpdated.t]]]

ParseJSON(text) == text

Absent == [state |-> "absent", text |-> <<>>]
Corrupt == [state |-> "corrupt", text |-> <<>>]
Written(docs) == [state |-> "json", text |-> Stringify(docs)]

(* Mutant: an empty cached array counts as no snapshot. *)
CacheHit_NonEmptyOnly(snap) == snap.state = "json" /\ snap.text /= <<>>

(* loadCachedDocuments: the parsed array, or null (here: no hit) on a      *)
(* missing or unparsable file.                                             *)
CacheHit(snap) == snap.state = "json"

loadCachedDocuments(snap) == ParseJSON(snap.text)

(* fetchGitHubContent for one source at time t: one document, or none when *)
(* the download fails; the caller then overwrites sourcePriority.          *)
fetchGitHubContent(src, ok, t) ==
    IF src.id \in ok
    THEN << [id |-> src.id, content |-> ContentLength(src.id),
             sourcePriority |-> 1, lastUpdated |-> [form |-> "Date", t |-> t]] >>
    ELSE <<>>

Tag(docs, priority) ==
    [i \in 1..Len(docs) |-> [docs[i] EXCEPT !.sourcePriority = priority]]

RECURSIVE IngestList(_, _, _, _)
IngestList(srcs, k, ok, t) ==
    IF k > Len(srcs) THEN <<>>
    ELSE Tag(fetchGitHubContent(srcs[k], ok, t), srcs[k].priority)
         \o IngestList(srcs, k + 1, ok, t)

ingestTopTeams(ok, t) == IngestList(TOP_TEAM_REPOS, 1, ok, t)

(* The non-cached part of ingestAllSources: top teams, then the sources.   *)
FetchAll(ok, t) == ingestTopTeams(ok, t) \o IngestList(FTC_SOURCES, 1, ok, t)

NumFetches == Len(TOP_TEAM_REPOS) + Len(FTC_SOURCES)

----------------------------------------------------------------------------
(* Chunking *)

RECURSIVE ChunkWindows(_, _, _, _)
ChunkWindows(len, start, size, overlap) ==
    IF start < len
    THEN << <<start, Min(start + size, len)>> >>
         \o ChunkWindows(len, start + size - overlap, size, overlap)
    ELSE <<>>

documentToChunks(doc) ==
    LET w == ChunkWindows(doc.content, 0, CHUNK_SIZE, CHUNK_OVERLAP)
    IN [i \in 1..Len(w) |->
          [documentId |-> doc.id,
           content |-> <<doc.id, w[i][1], w[i][2]>>,
           sourcePriority |-> doc.sourcePriority,
           chunkIndex |-> i - 1,
           totalChunks |-> Len(w),
           embedding |-> <<>>]]

RECURSIVE ChunksOf(_, _)
ChunksOf(docs, k) ==
    IF k > Len(docs) THEN <<>>
    ELSE documentToChunks(docs[k]) \o ChunksOf(docs, k + 1)

----------------------------------------------------------------------------
(* Records of the running invocations *)

NewRun(key, force) ==
    [pc |-> IF force THEN "fetch" ELSE "load",
     key |-> key, force |-> force,
     allDocs |-> <<>>, texts |-> <<>>, i |-> 0,
     cached |-> FALSE, fetches |-> 0]

NewCall(op, force, r) ==
    [op |-> op, force |-> force, run |-> r,
     st |-> IF r = 0 THEN "resolved" ELSE "pending", error |-> 0]

(* The awaiters of run r's promise resume with its outcome. *)
Settle(cs, r, st, error) ==
    [c \in 1..Len(cs) |->
        IF cs[c].run = r /\ cs[c].st = "pending"
        THEN [cs[c] EXCEPT !.st = st, !.error = error]
        ELSE cs[c]]

(* ingestAllSources and chunkText are not being stepped through. *)
IdleIngest == [pc |-> "idle"]

IdleChunker == [pc |-> "idle"]

IdleFormatter == [pc |-> "idle"]

(* No query has been made yet. *)
IdleQuery ==
    [pc |-> "idle", vendorHint |-> 0, matches |-> FALSE,
     pool |-> <<>>, poolArr |-> 0, filtered |-> FALSE,
     seen |-> <<>>, result |-> [documents |-> <<>>, scores |-> <<>>]]

ActiveRuns == {r \in 1..Len(runs) : runs[r].pc \notin {"done", "failed"}}

----------------------------------------------------------------------------
(* State after module load: the stores are empty and the auto-start        *)
(* ensureRAGInitialized() has started run 1, which is reading the cache.   *)
(* The cache file is what an earlier process left: nothing, an unparsable  *)
(* file, or the list of an earlier ingestion.                              *)

PriorSnapshots == {Absent, Written(FetchAll(SourceIds, 0))}

Init ==
    /\ documentStore = <<>>
    /\ chunkStore = <<>>
    /\ chunkArr = 0
    /\ isInitialized = FALSE
    /\ initPromise = 1
    /\ embeddings = FALSE
    /\ useEmbeddings = FALSE
    /\ snapshot \in PriorSnapshots
    /\ runs = << NewRun(FALSE, FALSE) >>
    /\ calls = << NewCall("ensure", FALSE, 1) >>
    /\ query = IdleQuery
    /\ adds = <<>>
    /\ repoArchiveCache = {}
    /\ requests = <<>>
    /\ ingest = IdleIngest
    /\ chunker = IdleChunker
    /\ formatter = IdleFormatter

----------------------------------------------------------------------------
(* runInitialization *)

(* The synchronous head of runInitialization(openaiApiKey, options), and   *)
(* the assignment of the chained promise to initPromise.                   *)
StartRun(key, force) ==
    /\ Len(runs) < MaxRuns
    /\ embeddings' = key
    /\ useEmbeddings' = key
    /\ runs' = Append(runs, NewRun(key, force))
    /\ initPromise' = Len(runs) + 1

(* Mutant: the .finally handler is missing, the rejected promise stays in  *)
(* initPromise.                                                            *)
Rejected_NoFinally(r, rs) ==
    /\ isInitialized' = FALSE
    /\ UNCHANGED initPromise
    /\ runs' = [rs EXCEPT ![r].pc = "failed"]
    /\ calls' = Settle(calls, r, "rejected", r)

(* .catch: isInitialized = false, rethrow; .finally: initPromise = null;   *)
(* then the awaiters are rejected with the run's error.                    *)
Rejected(r, rs) ==
    /\ isInitialized' = FALSE
    /\ initPromise' = 0
    /\ runs' = [rs EXCEPT ![r].pc = "failed"]
    /\ calls' = Settle(calls, r, "rejected", r)

(* The end of runInitialization: isInitialized = true; .finally:           *)
(* initPromise = null; then the awaiters resume.                           *)
Resolved(r, rs) ==
    /\ isInitialized' = TRUE
    /\ initPromise' = 0
    /\ runs' = [rs EXCEPT ![r].pc = "done"]
    /\ calls' = Settle(calls, r, "resolved", 0)

(* runInitialization after `await ingestAllSources` returned docs: the     *)
(* stores are replaced, and the run either awaits the first embedding      *)
(* batch or completes.                                                     *)
Publish(r, rs, docs) ==
    LET chunks == ChunksOf(docs, 1) IN
    /\ documentStore' = docs
    /\ chunkStore' = chunks
    /\ chunkArr' = r
    /\ UNCHANGED <<embeddings, useEmbeddings, query, adds>>
    /\ IF useEmbeddings /\ embeddings /\ Len(chunks) > 0
       THEN /\ runs' = [rs EXCEPT ![r].pc = "embed",
                                  ![r].texts = [k \in 1..Len(chunks) |-> chunks[k].content],
                                  ![r].i = 0]
            /\ UNCHANGED <<isInitialized, initPromise, calls>>
       ELSE Resolved(r, rs)

(* ingestAllSources, first await: loadCachedDocuments. *)
LoadCache(r) ==
    /\ r \in 1..Len(runs)
    /\ runs[r].pc = "load"
    /\ UNCHANGED snapshot
    /\ IF CacheHit(snapshot)
       THEN LET docs == loadCachedDocuments(snapshot) IN
            Publish(r, [runs EXCEPT ![r].allDocs = docs, ![r].cached = TRUE], docs)
       ELSE /\ runs' = [runs EXCEPT ![r].pc = "fetch"]
            /\ UNCHANGED <<indexVars, calls, query, adds>>

(* ingestAllSources, the fetch pass over the catalog; the sources in ok    *)
(* answer, the others fail.                                                *)
FetchOutcomes == {SourceIds, {}}

FetchSources(r, ok) ==
    /\ r \in 1..Len(runs)
    /\ runs[r].pc = "fetch"
    /\ runs' = [runs EXCEPT ![r].pc = "save",
                            ![r].allDocs = FetchAll(ok, r),
                            ![r].fetches = NumFetches]
    /\ UNCHANGED <<indexVars, snapshot, calls, query, adds>>

(* saveDocumentsToCache: mkdir and writeFile, every error caught and       *)
(* logged.  "ok": the file holds the list; "failed": nothing was written;  *)
(* "partial": the write broke off after the file was truncated.            *)
saveDocumentsToCache(docs, outcome) ==
    IF outcome = "ok" THEN Written(docs)
    ELSE IF outcome = "partial" THEN Corrupt
    ELSE snapshot

WriteOutcomes == {"ok", "failed", "partial"}

SaveCache(r, outcome) ==
    /\ r \in 1..Len(runs)
    /\ runs[r].pc = "save"
    /\ snapshot' = saveDocumentsToCache(runs[r].allDocs, outcome)
    /\ Publish(r, runs, runs[r].allDocs)

----------------------------------------------------------------------------
(* Embedding of the chunks *)

(* The vector the embedding service returns for a text: it is determined   *)
(* by the text.                                                            *)
Embed(text) == <<text>>

HasEmbedding(chunk) == chunk.embedding /= <<>>

(* for (j...) chunkStore[i + j].embedding = batchEmbeddings[j], up to the  *)
(* first index the current chunkStore does not have.                       *)
AttachEmbeddings(store, i, batch) ==
    [k \in 1..Len(store) |->
        IF k > i /\ k <= i + Len(batch)
        THEN [store[k] EXCEPT !.embedding = Embed(batch[k - i])]
        ELSE store[k]]

VendorFilter(store, hint) ==
    SelectIdx(store, {k \in 1..Len(store) : store[k].sourcePriority = hint}, 1)

(* A suspended query holds a reference to the chunk objects of the array   *)
(* it read: what is attached to those objects shows in its pool.           *)
SharePool(q, store) ==
    IF q.pc = "embedQuery" /\ q.poolArr = chunkArr
    THEN [q EXCEPT !.pool = IF q.filtered THEN VendorFilter(store, q.vendorHint)
                            ELSE store]
    ELSE q

(* runInitialization resumed from `await embeddings.embedTexts(batch)`:    *)
(* the call threw (ok = FALSE), or its vectors are attached to the chunks  *)
(* of the chunkStore of now.                                               *)
EmbedBatch(r, ok) ==
    /\ r \in 1..Len(runs)
    /\ runs[r].pc = "embed"
    /\ UNCHANGED <<documentStore, chunkArr, embeddings, useEmbeddings, snapshot, adds>>
    /\ LET i == runs[r].i
           texts == runs[r].texts
           batch == SubSeq(texts, i + 1, Min(i + batchSize, Len(texts)))
           store == AttachEmbeddings(chunkStore, i, batch)
       IN IF ~ok
          THEN /\ Rejected(r, runs)
               /\ UNCHANGED <<chunkStore, query>>
          ELSE /\ chunkStore' = store
               /\ query' = SharePool(query, store)
               /\ IF Len(chunkStore) < i + Len(batch)
                  THEN Rejected(r, runs)       \* TypeError on chunkStore[i + j]
                  ELSE IF i + batchSize < Len(texts)
                  THEN IF embeddings
                       THEN /\ runs' = [runs EXCEPT ![r].i = i + batchSize]
                            /\ UNCHANGED <<isInitialized, initPromise, calls>>
                       ELSE Rejected(r, runs)  \* TypeError on embeddings.embedTexts
                  ELSE Resolved(r, runs)

----------------------------------------------------------------------------
(* The entry points of the lifecycle controller *)

(* getRAGStatus(): a snapshot of the module state. *)
getRAGStatus ==
    [initialized |-> isInitialized,
     initializing |-> initPromise /= 0,
     searchMode |-> IF useEmbeddings THEN "semantic" ELSE "bm25",
     documentCount |-> Len(documentStore),
     chunkCount |-> Len(chunkStore),
     embeddedChunks |->
        Cardinality({k \in 1..Len(chunkStore) : HasEmbedding(chunkStore[k])})]


(* Mutant: the check of initPromise is missing, every call made before    *)
(* Ready starts a run.                                                     *)
ensureRAGInitialized_NoJoin ==
    /\ Len(calls) < MaxCalls
    /\ UNCHANGED <<documentStore, chunkStore, chunkArr, isInitialized, snapshot, query, adds>>
    /\ IF isInitialized
       THEN /\ calls' = Append(calls, NewCall("ensure", FALSE, 0))
            /\ UNCHANGED <<initPromise, embeddings, useEmbeddings, runs>>
       ELSE /\ StartRun(FALSE, FALSE)
            /\ calls' = Append(calls, NewCall("ensure", FALSE, Len(runs) + 1))

ensureRAGInitialized ==
    /\ Len(calls) < MaxCalls
    /\ UNCHANGED <<documentStore, chunkStore, chunkArr, isInitialized, snapshot, query, adds>>
    /\ IF isInitialized
       THEN /\ calls' = Append(calls, NewCall("ensure", FALSE, 0))
            /\ UNCHANGED <<initPromise, embeddings, useEmbeddings, runs>>
       ELSE IF initPromise = 0
       THEN /\ StartRun(FALSE, FALSE)
            /\ calls' = Append(calls, NewCall("ensure", FALSE, Len(runs) + 1))
       ELSE /\ calls' = Append(calls, NewCall("ensure", FALSE, initPromise))
            /\ UNCHANGED <<initPromise, embeddings, useEmbeddings, runs>>

(* Mutant: the early return for a Ready controller is missing. *)
initializeRAG_NoEarlyReturn(key, force) ==
    /\ Len(calls) < MaxCalls
    /\ UNCHANGED <<snapshot, query, adds>>
    /\ IF initPromise = 0 \/ force
       THEN /\ IF force
               THEN /\ isInitialized' = FALSE
                    /\ documentStore' = <<>>
                    /\ chunkStore' = <<>>
                    /\ chunkArr' = 0 - (Len(runs) + 1)
               ELSE UNCHANGED <<isInitialized, documentStore, chunkStore, chunkArr>>
            /\ StartRun(key, force)
            /\ calls' = Append(calls, NewCall("initialize", force, Len(runs) + 1))
       ELSE /\ calls' = Append(calls, NewCall("initialize", force, initPromise))
            /\ UNCHANGED <<indexVars, runs>>

initializeRAG(key, force) ==
    /\ Len(calls) < MaxCalls
    /\ UNCHANGED <<snapshot, query, adds>>
    /\ IF isInitialized /\ ~force
       THEN /\ calls' = Append(calls, NewCall("initialize", force, 0))
            /\ UNCHANGED <<indexVars, runs>>
       ELSE IF initPromise = 0 \/ force
       THEN /\ IF force
               THEN /\ isInitialized' = FALSE
                    /\ documentStore' = <<>>
                    /\ chunkStore' = <<>>
                    /\ chunkArr' = 0 - (Len(runs) + 1)
               ELSE UNCHANGED <<isInitialized, documentStore, chunkStore, chunkArr>>
            /\ StartRun(key, force)
            /\ calls' = Append(calls, NewCall("initialize", force, Len(runs) + 1))
       ELSE /\ calls' = Append(calls, NewCall("initialize", force, initPromise))
            /\ UNCHANGED <<indexVars, runs>>

----------------------------------------------------------------------------
(* queryRAG *)

VendorHints == {0}     \* 0: the query names no vendor

(* documentStore.find(d => d.id === docId): the first match, if any. *)
FindDoc(docs, id) ==
    LET hits == {k \in 1..Len(docs) : docs[k].id = id} IN
    IF hits = {} THEN <<>>
    ELSE << docs[CHOOSE k \in hits : \A m \in hits : k <= m] >>

(* Array.prototype.sort((a, b) => b.score - a.score): stable, descending. *)
RECURSIVE InsertDesc(_, _)
InsertDesc(sorted, x) ==
    IF sorted = <<>> THEN <<x>>
    ELSE IF Head(sorted).score >= x.score
         THEN <<Head(sorted)>> \o InsertDesc(Tail(sorted), x)
         ELSE <<x>> \o sorted

RECURSIVE SortDesc(_, _, _)
SortDesc(items, k, acc) ==
    IF k > Len(items) THEN acc
    ELSE SortDesc(items, k + 1, InsertDesc(acc, items[k]))

(* The score 1 as a fixed-point number: scores count ten-thousandths. *)
One == 10000

(* The score of a chunk for the query: here every chunk of the pool has    *)
(* the same raw score, positive when the query matches the corpus.         *)
ScoreChunks(pool, matches) ==
    [k \in 1..Len(pool) |-> [chunk |-> pool[k], score |-> IF matches THEN One ELSE 0]]

(* The docMap loop: the first chunk of a document inserts its entry, a     *)
(* later chunk with a greater score replaces the entry in place.           *)
RECURSIVE GroupByDocument(_, _, _, _)
GroupByDocument(items, k, docs, acc) ==
    IF k > Len(items) THEN acc
    ELSE LET docId == items[k].chunk.documentId
             found == FindDoc(docs, docId)
             at == {j \in 1..Len(acc) : acc[j].doc.id = docId}
             next == IF found = <<>> THEN acc
                     ELSE IF at = {}
                     THEN Append(acc, [doc |-> found[1], score |-> items[k].score])
                     ELSE LET j == CHOOSE j \in at : TRUE IN
                          IF items[k].score > acc[j].score
                          THEN [acc EXCEPT ![j] = [doc |-> found[1], score |-> items[k].score]]
                          ELSE acc
         IN GroupByDocument(items, k + 1, docs, next)

(* The vendor fallback: one entry with score 1 per chunk of the vendor's   *)
(* tier in chunkStore whose document is found.                             *)
RECURSIVE VendorDocs(_, _, _)
VendorDocs(vendorChunks, k, docs) ==
    IF k > Len(vendorChunks) THEN <<>>
    ELSE LET found == FindDoc(docs, vendorChunks[k].documentId) IN
         (IF found = <<>> THEN <<>> ELSE << [doc |-> found[1], score |-> One] >>)
         \o VendorDocs(vendorChunks, k + 1, docs)

(* Mutant: chunks with a score of zero are kept. *)
Rank_NoPositiveFilter(scored, hint, topK, docs, store) ==
    LET sorted == SortDesc(scored, 1, <<>>)
        topChunks == SubSeq(sorted, 1, Min(topK, Len(sorted)))
        grouped == SortDesc(GroupByDocument(topChunks, 1, docs, <<>>), 1, <<>>)
        ofVendor == SelectIdx(grouped,
                        {k \in 1..Len(grouped) : grouped[k].doc.sourcePriority = hint}, 1)
        vendorDocs == VendorDocs(VendorFilter(store, hint), 1, docs)
    IN IF hint = 0 THEN grouped
       ELSE IF Len(ofVendor) > 0 THEN ofVendor
       ELSE SubSeq(vendorDocs, 1, Min(topK, Len(vendorDocs)))

(* Mutant: no vendor fallback. *)
Rank_NoFallback(scored, hint, topK, docs, store) ==
    LET sorted == SortDesc(scored, 1, <<>>)
        positive == SelectIdx(sorted, {k \in 1..Len(sorted) : sorted[k].score > 0}, 1)
        topChunks == SubSeq(positive, 1, Min(topK, Len(positive)))
        grouped == SortDesc(GroupByDocument(topChunks, 1, docs, <<>>), 1, <<>>)
    IN IF hint = 0 THEN grouped
       ELSE SelectIdx(grouped,
                {k \in 1..Len(grouped) : grouped[k].doc.sourcePriority = hint}, 1)

(* Mutant: the positive chunks are not cut to the first topK. *)
Rank_NoSlice(scored, hint, topK, docs, store) ==
    LET sorted == SortDesc(scored, 1, <<>>)
        positive == SelectIdx(sorted, {k \in 1..Len(sorted) : sorted[k].score > 0}, 1)
        grouped == SortDesc(GroupByDocument(positive, 1, docs, <<>>), 1, <<>>)
        ofVendor == SelectIdx(grouped,
                        {k \in 1..Len(grouped) : grouped[k].doc.sourcePriority = hint}, 1)
        vendorDocs == VendorDocs(VendorFilter(store, hint), 1, docs)
    IN IF hint = 0 THEN grouped
       ELSE IF Len(ofVendor) > 0 THEN ofVendor
       ELSE SubSeq(vendorDocs, 1, Min(topK, Len(vendorDocs)))

(* queryRAG from the scored chunks to the result, reading documentStore    *)
(* and chunkStore as they are now.                                         *)
Rank(scored, hint, topK, docs, store) ==
    LET sorted == SortDesc(scored, 1, <<>>)
        positive == SelectIdx(sorted, {k \in 1..Len(sorted) : sorted[k].score > 0}, 1)
        topChunks == SubSeq(positive, 1, Min(topK, Len(positive)))
        grouped == SortDesc(GroupByDocument(topChunks, 1, docs, <<>>), 1, <<>>)
        ofVendor == SelectIdx(grouped,
                        {k \in 1..Len(grouped) : grouped[k].doc.sourcePriority = hint}, 1)
        vendorDocs == VendorDocs(VendorFilter(store, hint), 1, docs)
    IN IF hint = 0 THEN grouped
       ELSE IF Len(ofVendor) > 0 THEN ofVendor
       ELSE SubSeq(vendorDocs, 1, Min(topK, Len(vendorDocs)))

Result(results) ==
    [documents |-> [k \in 1..Len(results) |-> results[k].doc],
     scores |-> [k \in 1..Len(results) |-> results[k].score]]

EmptyResult == [documents |-> <<>>, scores |-> <<>>]

(* A query that has returned keeps its result only. *)
Returned(result) ==
    [pc |-> "done", vendorHint |-> 0, matches |-> FALSE,
     pool |-> <<>>, poolArr |-> 0, filtered |-> FALSE,
     seen |-> <<>>, result |-> result]

(* A query suspended in embedQuery: its locals, and in seen the            *)
(* documentStore of the moment it read chunkStore.                         *)
Suspended(hint, matches, pool, filtered) ==
    [pc |-> "embedQuery", vendorHint |-> hint, matches |-> matches,
     pool |-> pool, poolArr |-> chunkArr, filtered |-> filtered,
     seen |-> documentStore, result |-> EmptyResult]

(* Mutant: the isInitialized guard is missing. *)
QueryStart_NoGuard(hint, matches) ==
    /\ query.pc /= "embedQuery"
    /\ UNCHANGED <<indexVars, snapshot, runs, calls, adds>>
    /\ LET vendorChunks == VendorFilter(chunkStore, hint)
           filtered == hint /= 0 /\ Len(vendorChunks) > 0
           chunkPool == IF filtered THEN vendorChunks ELSE chunkStore
       IN IF useEmbeddings /\ embeddings
          THEN query' = Suspended(hint, matches, chunkPool, filtered)
          ELSE query' = Returned(Result(Rank(ScoreChunks(chunkPool, matches), hint,
                                             DEFAULT_TOP_K, documentStore, chunkStore)))

(* queryRAG up to its first await, or to its return when it has none.     *)
(* Queries write nothing, so one invocation at a time shows all they do.   *)
QueryStart(hint, matches) ==
    /\ query.pc /= "embedQuery"
    /\ UNCHANGED <<indexVars, snapshot, runs, calls, adds>>
    /\ LET vendorChunks == VendorFilter(chunkStore, hint)
           filtered == hint /= 0 /\ Len(vendorChunks) > 0
           chunkPool == IF filtered THEN vendorChunks ELSE chunkStore
       IN IF ~isInitialized
          THEN query' = Returned(EmptyResult)
          ELSE IF useEmbeddings /\ embeddings
          THEN query' = Suspended(hint, matches, chunkPool, filtered)
          ELSE query' = Returned(Result(Rank(ScoreChunks(chunkPool, matches), hint,
                                             DEFAULT_TOP_K, documentStore, chunkStore)))

(* queryRAG resumed from `await embeddings.embedQuery(query.query)`: the   *)
(* call threw and the query rejects, or the chunks of the pool that carry  *)
(* an embedding are scored.                                                *)
QueryResume(ok) ==
    /\ query.pc = "embedQuery"
    /\ UNCHANGED <<indexVars, snapshot, runs, calls, adds>>
    /\ IF ~ok
       THEN query' = [Returned(EmptyResult) EXCEPT !.pc = "threw"]
       ELSE LET pool == query.pool
                embedded == SelectIdx(pool, {k \in 1..Len(pool) : HasEmbedding(pool[k])}, 1)
            IN query' = Returned(Result(Rank(ScoreChunks(embedded, query.matches),
                                             query.vendorHint, DEFAULT_TOP_K,
                                             documentStore, chunkStore)))

----------------------------------------------------------------------------
(* addUserRepository *)

USER_REPO == 9

(* The repositories a user adds: 3 is a repository of the user's own, 1 is *)
(* the top-team repository of the catalog (same owner, repo and paths, so  *)
(* the same document ids).                                                 *)
UserRepos == {1, 3}

(* Mutant: the documents keep the tier fetchGitHubContent gave them. *)
fetchUserRepo_Untagged(repo, ok, t) ==
    fetchGitHubContent([id |-> repo], IF ok THEN {repo} ELSE {}, t)

fetchUserRepo(repo, ok, t) ==
    Tag(fetchGitHubContent([id |-> repo], IF ok THEN {repo} ELSE {}, t), USER_REPO)

(* chunkStore.push(...) reaches the array a suspended query read when the  *)
(* query kept that array itself, not a filtered copy.                      *)
SharePush(q, store) ==
    IF q.pc = "embedQuery" /\ q.poolArr = chunkArr /\ ~q.filtered
    THEN [q EXCEPT !.pool = store]
    ELSE q

(* The loop over userDocs from document k on, with chunkStore = store: it  *)
(* runs to its end, or to the await of embedTexts for a document.          *)
RECURSIVE AddLoop(_, _, _)
AddLoop(rec, k, store) ==
    IF k > Len(rec.userDocs)
    THEN [add |-> [rec EXCEPT !.pc = "done", !.k = k, !.chunks = <<>>], store |-> store]
    ELSE LET chunks == documentToChunks(rec.userDocs[k]) IN
         IF useEmbeddings' /\ embeddings'
         THEN [add |-> [rec EXCEPT !.pc = "embed", !.k = k, !.chunks = chunks],
               store |-> store]
         ELSE AddLoop(rec, k + 1, store \o chunks)

(* addUserRepository up to `await fetchUserRepo(repoURL)`. *)
addUserRepository(repo, key) ==
    /\ Len(adds) < MaxAdds
    /\ IF key /\ (~embeddings \/ ~useEmbeddings)
       THEN embeddings' = TRUE /\ useEmbeddings' = TRUE
       ELSE UNCHANGED <<embeddings, useEmbeddings>>
    /\ adds' = Append(adds, [pc |-> "fetch", repo |-> repo, userDocs |-> <<>>,
                             k |-> 0, chunks |-> <<>>])
    /\ UNCHANGED <<documentStore, chunkStore, chunkArr, isInitialized, initPromise,
                   snapshot, runs, calls, query>>

(* fetchUserRepo returned: the documents are pushed onto documentStore,    *)
(* and the loop over them starts.                                          *)
AddFetched(a, ok) ==
    /\ a \in 1..Len(adds)
    /\ adds[a].pc = "fetch"
    /\ UNCHANGED <<chunkArr, isInitialized, initPromise, embeddings, useEmbeddings,
                   snapshot, runs, calls>>
    /\ LET userDocs == fetchUserRepo(adds[a].repo, ok, 0 - a)
           out == AddLoop([adds[a] EXCEPT !.userDocs = userDocs], 1, chunkStore)
       IN /\ documentStore' = documentStore \o userDocs
          /\ chunkStore' = out.store
          /\ adds' = [adds EXCEPT ![a] = out.add]
          /\ query' = SharePush(query, out.store)

(* Resumed from `await embeddings.embedTexts(texts)` for document k: the   *)
(* call threw and addUserRepository rejects, or the document's chunks get  *)
(* their vectors and are pushed onto chunkStore, and the loop goes on.     *)
AddEmbedded(a, ok) ==
    /\ a \in 1..Len(adds)
    /\ adds[a].pc = "embed"
    /\ UNCHANGED <<documentStore, chunkArr, isInitialized, initPromise, embeddings,
                   useEmbeddings, snapshot, runs, calls>>
    /\ IF ~ok
       THEN /\ adds' = [adds EXCEPT ![a].pc = "threw"]
            /\ UNCHANGED <<chunkStore, query>>
       ELSE LET chunks == [k \in 1..Len(adds[a].chunks) |->
                              [adds[a].chunks[k] EXCEPT
                                  !.embedding = Embed(adds[a].chunks[k].content)]]
                out == AddLoop(adds[a], adds[a].k + 1, chunkStore \o chunks)
            IN /\ chunkStore' = out.store
               /\ adds' = [adds EXCEPT ![a] = out.add]
               /\ query' = SharePush(query, out.store)

----------------------------------------------------------------------------

Next ==
    \/ \E r \in 1..MaxRuns : LoadCache(r) /\ UNCHANGED stepVars
    \/ \E r \in 1..MaxRuns, ok \in FetchOutcomes :
          FetchSources(r, ok) /\ UNCHANGED stepVars
    \/ \E r \in 1..MaxRuns, outcome \in WriteOutcomes :
          SaveCache(r, outcome) /\ UNCHANGED stepVars
    \/ \E r \in 1..MaxRuns, ok \in BOOLEAN : EmbedBatch(r, ok) /\ UNCHANGED stepVars
    \/ ensureRAGInitialized /\ UNCHANGED stepVars
    \/ \E key \in BOOLEAN, force \in BOOLEAN :
          initializeRAG(key, force) /\ UNCHANGED stepVars
    \/ \E hint \in VendorHints : QueryStart(hint, TRUE) /\ UNCHANGED stepVars
    \/ \E ok \in BOOLEAN : QueryResume(ok) /\ UNCHANGED stepVars
    \/ \E repo \in UserRepos, key \in BOOLEAN :
          addUserRepository(repo, key) /\ UNCHANGED stepVars
    \/ \E a \in 1..MaxAdds, ok \in BOOLEAN : AddFetched(a, ok) /\ UNCHANGED stepVars
    \/ \E a \in 1..MaxAdds, ok \in BOOLEAN : AddEmbedded(a, ok) /\ UNCHANGED stepVars

Spec == Init /\ [][Next]_vars

----------------------------------------------------------------------------
(* ingestAllSources, source by source, in one process: the archive cache   *)
(* lives as long as the process, the snapshot file outlives it.            *)

MaxIngests == 2

BRANCH_CANDIDATES == <<"main", "master">>

(* What getDefaultBranch may return ("": null, the lookup failed) and the  *)
(* branches an archive download may be asked for.                          *)
DefaultBranches == {"", "main", "dev"}

Branches == {"dev", "main", "master"}

(* The catalog in the order ingestAllSources walks it: TOP_TEAM_REPOS,     *)
(* then FTC_SOURCES.  Entries 2 and 3 are two entries of one repository    *)
(* with different path prefixes, as the two FtcRobotController entries.    *)
IngestCatalog ==
    << [id |-> 1, priority |-> 2, type |-> "github", repo |-> 1],
       [id |-> 2, priority |-> 1, type |-> "github", repo |-> 2],
       [id |-> 3, priority |-> 1, type |-> "github", repo |-> 2],
       [id |-> 4, priority |-> 8, type |-> "pdf", repo |-> 0],
       [id |-> 5, priority |-> 8, type |-> "web", repo |-> 0] >>

(* branches = [defaultBranch, ...BRANCH_CANDIDATES].filter(Boolean) *)
BranchList(defaultBranch) ==
    (IF defaultBranch = "" THEN <<>> ELSE <<defaultBranch>>) \o BRANCH_CANDIDATES

(* The loop of downloadRepoArchive from branch k on: a cached archive is   *)
(* returned without a request; otherwise the archive is requested, and a   *)
(* response that is not ok or a thrown error moves on to the next branch.  *)
(* up: the branches whose download succeeds now.                           *)
RECURSIVE TryBranches(_, _, _, _, _, _)
TryBranches(repo, branches, k, up, cache, asked) ==
    IF k > Len(branches)
    THEN [found |-> FALSE, cache |-> cache, requests |-> asked]
    ELSE LET cacheKey == <<repo, branches[k]>> IN
         IF cacheKey \in cache
         THEN [found |-> TRUE, cache |-> cache, requests |-> asked]
         ELSE IF branches[k] \in up
         THEN [found |-> TRUE, cache |-> cache \cup {cacheKey},
               requests |-> Append(asked, cacheKey)]
         ELSE TryBranches(repo, branches, k + 1, up, cache, Append(asked, cacheKey))

downloadRepoArchive(repo, defaultBranch, up, cache) ==
    TryBranches(repo, BranchList(defaultBranch), 1, up, cache, <<>>)

(* fetchWebContent / fetchPDFContent for one source: one document when the *)
(* response is ok, none when it is not or the request throws.              *)
fetchWebContent(src, ok, t) ==
    IF ok
    THEN << [id |-> src.id, content |-> ContentLength(src.id),
             sourcePriority |-> 8, lastUpdated |-> [form |-> "Date", t |-> t]] >>
    ELSE <<>>

fetchPDFContent(src, ok, t) ==
    IF ok
    THEN << [id |-> src.id, content |-> ContentLength(src.id),
             sourcePriority |-> 8, lastUpdated |-> [form |-> "Date", t |-> t]] >>
    ELSE <<>>

NewIngest(n, force) ==
    [pc |-> IF force THEN "fetch" ELSE "load", n |-> n, force |-> force,
     k |-> 1, allDocs |-> <<>>, failed |-> {}, cached |-> FALSE]

(* Mutant: a source that fails aborts the run. *)
SourceDone_Abort(rec, src, docs, failed) ==
    IF failed
    THEN [rec EXCEPT !.pc = "threw", !.failed = @ \cup {src.id}]
    ELSE [rec EXCEPT !.allDocs = @ \o Tag(docs, src.priority),
                     !.k = @ + 1,
                     !.pc = IF rec.k = Len(IngestCatalog) THEN "save" ELSE "fetch"]

(* The body of the loop over the catalog for one source: the fetch of the  *)
(* source caught and logged all of its errors and returned docs; the       *)
(* documents are tagged and pushed, and the loop goes on.                  *)
SourceDone(rec, src, docs, failed) ==
    [rec EXCEPT !.allDocs = @ \o Tag(docs, src.priority),
                !.k = @ + 1,
                !.failed = IF failed THEN @ \cup {src.id} ELSE @,
                !.pc = IF rec.k = Len(IngestCatalog) THEN "save" ELSE "fetch"]

lifecycleVars == <<documentStore, chunkStore, chunkArr, isInitialized, initPromise,
                   embeddings, useEmbeddings, runs, calls, query, adds>>

(* ingestAllSources(options) is called. *)
IngestCall(force) ==
    /\ ingest.pc \in {"idle", "returned"}
    /\ ingest.n < MaxIngests
    /\ ingest' = NewIngest(ingest.n + 1, force)
    /\ UNCHANGED <<lifecycleVars, snapshot, repoArchiveCache, requests, chunker, formatter>>

(* await loadCachedDocuments() *)
IngestLoad ==
    /\ ingest.pc = "load"
    /\ ingest' = IF CacheHit(snapshot)
                 THEN [ingest EXCEPT !.pc = "returned", !.cached = TRUE,
                                     !.allDocs = loadCachedDocuments(snapshot)]
                 ELSE [ingest EXCEPT !.pc = "fetch"]
    /\ UNCHANGED <<lifecycleVars, snapshot, repoArchiveCache, requests, chunker, formatter>>

(* One github source: fetchGitHubContent with its downloadRepoArchive. *)
IngestGitHub(defaultBranch, up) ==
    /\ ingest.pc = "fetch"
    /\ IngestCatalog[ingest.k].type = "github"
    /\ LET src == IngestCatalog[ingest.k]
           archive == downloadRepoArchive(src.repo, defaultBranch, up, repoArchiveCache)
           docs == fetchGitHubContent(src, IF archive.found THEN {src.id} ELSE {}, ingest.n)
       IN /\ repoArchiveCache' = archive.cache
          /\ requests' = archive.requests
          /\ ingest' = SourceDone(ingest, src, docs, ~archive.found)
    /\ UNCHANGED <<lifecycleVars, snapshot, chunker, formatter>>

(* One web source. *)
IngestWeb(ok) ==
    /\ ingest.pc = "fetch"
    /\ IngestCatalog[ingest.k].type = "web"
    /\ LET src == IngestCatalog[ingest.k] IN
       ingest' = SourceDone(ingest, src, fetchWebContent(src, ok, ingest.n), ~ok)
    /\ UNCHANGED <<lifecycleVars, snapshot, repoArchiveCache, requests, chunker, formatter>>

(* One pdf source. *)
IngestPDF(ok) ==
    /\ ingest.pc = "fetch"
    /\ IngestCatalog[ingest.k].type = "pdf"
    /\ LET src == IngestCatalog[ingest.k] IN
       ingest' = SourceDone(ingest, src, fetchPDFContent(src, ok, ingest.n), ~ok)
    /\ UNCHANGED <<lifecycleVars, snapshot, repoArchiveCache, requests, chunker, formatter>>

(* await saveDocumentsToCache(allDocs); return allDocs *)
IngestSave(outcome) ==
    /\ ingest.pc = "save"
    /\ snapshot' = saveDocumentsToCache(ingest.allDocs, outcome)
    /\ ingest' = [ingest EXCEPT !.pc = "returned"]
    /\ UNCHANGED <<lifecycleVars, repoArchiveCache, requests, chunker, formatter>>

InitIngest ==
    /\ documentStore = <<>>
    /\ chunkStore = <<>>
    /\ chunkArr = 0
    /\ isInitialized = FALSE
    /\ initPromise = 0
    /\ embeddings = FALSE
    /\ useEmbeddings = FALSE
    /\ snapshot \in PriorSnapshots
    /\ runs = <<>>
    /\ calls = <<>>
    /\ query = IdleQuery
    /\ adds = <<>>
    /\ repoArchiveCache = {}
    /\ requests = <<>>
    /\ ingest = [NewIngest(0, FALSE) EXCEPT !.pc = "idle"]
    /\ chunker = IdleChunker
    /\ formatter = IdleFormatter

NextIngest ==
    \/ \E force \in BOOLEAN : IngestCall(force)
    \/ IngestLoad
    \/ \E defaultBranch \in DefaultBranches, up \in SUBSET Branches :
          IngestGitHub(defaultBranch, up)
    \/ \E ok \in BOOLEAN : IngestWeb(ok)
    \/ \E ok \in BOOLEAN : IngestPDF(ok)
    \/ \E outcome \in WriteOutcomes : IngestSave(outcome)

SpecIngest == InitIngest /\ [][NextIngest]_vars

----------------------------------------------------------------------------
(* chunkText, iteration by iteration, on texts of a two-letter alphabet *)

MaxLen == 4
MaxSize == 3
MaxSteps == 6

Alphabet == {"a", "b"}

Texts == UNION {[1..n -> Alphabet] : n \in 0..MaxLen}

(* String.prototype.slice(start, end): a negative index counts from the    *)
(* end of the text, an index beyond it is the end.                         *)
SliceIndex(len, i) == IF i < 0 THEN (IF len + i < 0 THEN 0 ELSE len + i) ELSE Min(i, len)

Slice(text, start, end) ==
    SubSeq(text, SliceIndex(Len(text), start) + 1, SliceIndex(Len(text), end))

NewChunker(text, chunkSize, overlap) ==
    [pc |-> "loop", text |-> text, chunkSize |-> chunkSize, overlap |-> overlap,
     start |-> 0, chunks |-> <<>>]

(* Mutant: a window that would reach beyond the text is not pushed. *)
ChunkStep_DropsRemainder ==
    /\ chunker.pc = "loop"
    /\ chunker.start < Len(chunker.text)
    /\ Len(chunker.chunks) < MaxSteps
    /\ LET end == Min(chunker.start + chunker.chunkSize, Len(chunker.text)) IN
       chunker' = [chunker EXCEPT
                      !.chunks = IF chunker.start + chunker.chunkSize > Len(chunker.text)
                                 THEN @
                                 ELSE Append(@, Slice(chunker.text, chunker.start, end)),
                      !.start = @ + chunker.chunkSize - chunker.overlap]
    /\ UNCHANGED <<lifecycleVars, snapshot, repoArchiveCache, requests, ingest, formatter>>

(* One iteration of `while (start < text.length)`. *)
ChunkStep ==
    /\ chunker.pc = "loop"
    /\ chunker.start < Len(chunker.text)
    /\ Len(chunker.chunks) < MaxSteps
    /\ LET end == Min(chunker.start + chunker.chunkSize, Len(chunker.text)) IN
       chunker' = [chunker EXCEPT
                      !.chunks = Append(@, Slice(chunker.text, chunker.start, end)),
                      !.start = @ + chunker.chunkSize - chunker.overlap]
    /\ UNCHANGED <<lifecycleVars, snapshot, repoArchiveCache, requests, ingest, formatter>>

(* The loop condition is false: return chunks. *)
ChunkReturn ==
    /\ chunker.pc = "loop"
    /\ ~(chunker.start < Len(chunker.text))
    /\ chunker' = [chunker EXCEPT !.pc = "returned"]
    /\ UNCHANGED <<lifecycleVars, snapshot, repoArchiveCache, requests, ingest, formatter>>

(* chunkText(text, chunkSize, overlap) has been called. *)
InitChunk ==
    /\ documentStore = <<>>
    /\ chunkStore = <<>>
    /\ chunkArr = 0
    /\ isInitialized = FALSE
    /\ initPromise = 0
    /\ embeddings = FALSE
    /\ useEmbeddings = FALSE
    /\ snapshot = Absent
    /\ runs = <<>>
    /\ calls = <<>>
    /\ query = IdleQuery
    /\ adds = <<>>
    /\ repoArchiveCache = {}
    /\ requests = <<>>
    /\ ingest = IdleIngest
    /\ \E text \in Texts, chunkSize \in 1..MaxSize, overlap \in 0..MaxSize :
          chunker = NewChunker(text, chunkSize, overlap)
    /\ formatter = IdleFormatter

NextChunk ==
    \/ ChunkStep
    \/ ChunkReturn

SpecChunk == InitChunk /\ [][NextChunk]_vars

----------------------------------------------------------------------------
(* The lexical scoring of queryRAG, on texts that are sequences of words.  *)
(* No word of the vocabulary is part of another one, so that the number of *)
(* times a token occurs in a text as a substring is the number of its      *)
(* words equal to the token.  Scores are fixed-point numbers: raw scores   *)
(* in thousandths, weights in tenths.                                      *)

ROADRUNNER == 3
FTCLIB == 4

MaxWords == 2

TextWords == {"limelight", "llresult", "motor", "on"}

QueryWords == TextWords \cup {"roadrunner"}

WordLength(w) ==
    CASE w = "limelight" -> 9
      [] w = "llresult" -> 8
      [] w = "motor" -> 5
      [] w = "on" -> 2
      [] w = "roadrunner" -> 10
      [] OTHER -> 0

(* Texts up to the order of their words, which no score depends on. *)
WordNumber(w) ==
    CASE w = "limelight" -> 1
      [] w = "llresult" -> 2
      [] w = "motor" -> 3
      [] w = "on" -> 4
      [] OTHER -> 5

WordSeqs(words, lo, hi) ==
    {s \in UNION {[1..n -> words] : n \in lo..hi} :
        \A i \in 1..(Len(s) - 1) : WordNumber(s[i]) <= WordNumber(s[i + 1])}

Count(text, w) == Cardinality({i \in 1..Len(text) : text[i] = w})

(* SOURCE_WEIGHT[priority], in tenths: the weight of each priority tier,   *)
(* of which the tiers 1 (2.0) and 5 (1.0) are known.                       *)
SOURCE_WEIGHT == (1 :> 20) @@ (5 :> 10)

(* score * (SOURCE_WEIGHT[priority] ?? 1) *)
applyPriorityWeighting(score, priority) ==
    score * (IF priority \in DOMAIN SOURCE_WEIGHT THEN SOURCE_WEIGHT[priority] ELSE 10)

(* The vendor the query names: limelight before road runner before ftclib. *)
VendorHint(q) ==
    IF "limelight" \in Range(q) THEN LIMELIGHT
    ELSE IF "roadrunner" \in Range(q) THEN ROADRUNNER
    ELSE IF "ftclib" \in Range(q) THEN FTCLIB
    ELSE 0

vendorKeywords(priority) ==
    CASE priority = LIMELIGHT -> {"limelight", "llresult", "limelight3a", "detectorresult"}
      [] priority = ROADRUNNER -> {"roadrunner", "trajectory", "driveconstants"}
      [] priority = FTCLIB -> {"ftclib", "commandscheduler", "subsystem"}
      [] OTHER -> {}

(* The tokens of the query: its words of more than two characters. *)
Tokens(q) == {w \in Range(q) : WordLength(w) > 2}

(* The sum of f[x] over the x of a set. *)
RECURSIVE SumOver(_, _)
SumOver(set, f) ==
    IF set = {} THEN 0
    ELSE LET x == CHOOSE x \in set : TRUE IN f[x] + SumOver(set \ {x}, f)

(* keywordScore(text, priority): occurrences * (weight + 1) for every      *)
(* token, weight being the times the token is in the query, and 10 for     *)
(* every vendor keyword of the chunk's own tier the text contains.         *)
keywordScore(q, text, priority) ==
    LET TokenScore == [token \in Tokens(q) |-> Count(text, token) * (Count(q, token) + 1)]
        Bonus == [kw \in vendorKeywords(priority) |-> IF kw \in Range(text) THEN 10 ELSE 0]
    IN SumOver(Tokens(q), TokenScore) + SumOver(vendorKeywords(priority), Bonus)

(* 1000 * Math.log(1 + 1 / (termFreq + 1)), rounded *)
Idf(termFreq) ==
    CASE termFreq = 1 -> 405
      [] termFreq = 2 -> 288
      [] termFreq = 3 -> 223
      [] termFreq = 4 -> 182
      [] OTHER -> 154

(* bm25Score(query, document, avgDocLength), in thousandths, with          *)
(* avgDocLength = total / n, k1 = 1.5 and b = 0.75:                        *)
(*   idf * termFreq * (k1 + 1) / (termFreq + k1 * (1 - b + b * dl / avg))  *)
(*     = idf * 20 tf total / (8 tf total + 3 total + 9 dl n).              *)
(* The terms of the empty query are the one empty string, which every      *)
(* word of the document includes.                                          *)
bm25Score(q, document, total, n) ==
    LET docLength == Len(document)
        Term(termFreq) ==
            IF termFreq = 0 THEN 0
            ELSE (Idf(termFreq) * 20 * termFreq * total)
                    \div (8 * termFreq * total + 3 * total + 9 * docLength * n)
    IN IF q = <<>> THEN Term(docLength)
       ELSE SumOver(1..Len(q), [i \in 1..Len(q) |-> Term(Count(document, q[i]))])

(* scoredChunks of the lexical branch: the keyword score, the BM25 score   *)
(* when that is 0, then the priority weighting.                            *)
LexicalScores(q, pool) ==
    LET total == SumOver(1..Len(pool), [k \in 1..Len(pool) |-> Len(pool[k].content)])
    IN [k \in 1..Len(pool) |->
          LET score == keywordScore(q, pool[k].content, pool[k].sourcePriority)
              raw == IF score = 0
                     THEN bm25Score(q, pool[k].content, total, Len(pool))
                     ELSE 1000 * score
          IN [chunk |-> pool[k],
              score |-> applyPriorityWeighting(raw, pool[k].sourcePriority)]]

(* The index of the scoring specification: two documents, the content of   *)
(* each given as the texts of its chunks.                                  *)
SDK == 1

Tiers == {SDK, LIMELIGHT}

ChunkTexts == WordSeqs(TextWords, 1, MaxWords)

ScoreDoc(id, priority, texts) ==
    [id |-> id, content |-> texts, sourcePriority |-> priority,
     lastUpdated |-> [form |-> "Date", t |-> 0]]

Corpora ==
    {<<ScoreDoc(1, p1, c1), ScoreDoc(2, p2, <<t2>>)>> :
        p1 \in Tiers, p2 \in Tiers, t2 \in ChunkTexts,
        c1 \in {<<t>> : t \in ChunkTexts}
               \cup {<<t, u>> : t \in ChunkTexts, u \in WordSeqs(TextWords, 1, 1)}}

(* documentToChunks of a document whose chunk texts are given. *)
TextChunks(doc) ==
    [i \in 1..Len(doc.content) |->
        [documentId |-> doc.id,
         content |-> doc.content[i],
         sourcePriority |-> doc.sourcePriority,
         chunkIndex |-> i - 1,
         totalChunks |-> Len(doc.content),
         embedding |-> <<>>]]

(* query.topK: 0 when the caller gives none. *)
TopKs == {0, 1}

NewQuery(q, topK) ==
    [pc |-> "called", query |-> q, topK |-> topK, vendorHint |-> 0,
     scored |-> <<>>, result |-> EmptyResult]

(* Mutant: the vendor hint restricts neither the pool nor the result. *)
QueryLexical_NoVendor ==
    /\ query.pc = "called"
    /\ ~(useEmbeddings /\ embeddings)
    /\ LET topK == IF query.topK = 0 THEN DEFAULT_TOP_K ELSE query.topK
           scoredChunks == LexicalScores(query.query, chunkStore)
       IN query' = [query EXCEPT
                       !.pc = "done",
                       !.vendorHint = VendorHint(query.query),
                       !.scored = scoredChunks,
                       !.result = Result(Rank(scoredChunks, 0, topK,
                                              documentStore, chunkStore))]
    /\ UNCHANGED <<indexVars, snapshot, runs, calls, adds, stepVars>>

(* queryRAG(query) on a Ready index without embeddings: it has no await    *)
(* and returns in one step.                                                *)
QueryLexical ==
    /\ query.pc = "called"
    /\ ~(useEmbeddings /\ embeddings)
    /\ LET topK == IF query.topK = 0 THEN DEFAULT_TOP_K ELSE query.topK
           vendorHint == VendorHint(query.query)
           vendorChunks == VendorFilter(chunkStore, vendorHint)
           chunkPool == IF vendorHint /= 0 /\ Len(vendorChunks) > 0
                        THEN vendorChunks ELSE chunkStore
           scoredChunks == LexicalScores(query.query, chunkPool)
       IN query' = IF ~isInitialized
                   THEN [query EXCEPT !.pc = "done"]
                   ELSE [query EXCEPT
                            !.pc = "done",
                            !.vendorHint = vendorHint,
                            !.scored = scoredChunks,
                            !.result = Result(Rank(scoredChunks, vendorHint, topK,
                                                   documentStore, chunkStore))]
    /\ UNCHANGED <<indexVars, snapshot, runs, calls, adds, stepVars>>

(* A Ready index in lexical mode, and a query that has been called. *)
InitScore ==
    /\ documentStore \in Corpora
    /\ chunkStore = TextChunks(documentStore[1]) \o TextChunks(documentStore[2])
    /\ chunkArr = 1
    /\ isInitialized = TRUE
    /\ initPromise = 0
    /\ embeddings = FALSE
    /\ useEmbeddings = FALSE
    /\ snapshot = Absent
    /\ runs = <<>>
    /\ calls = <<>>
    /\ \E q \in WordSeqs(QueryWords, 0, MaxWords), topK \in TopKs :
          query = NewQuery(q, topK)
    /\ adds = <<>>
    /\ repoArchiveCache = {}
    /\ requests = <<>>
    /\ ingest = IdleIngest
    /\ chunker = IdleChunker
    /\ formatter = IdleFormatter

NextScore == QueryLexical

SpecScore == InitScore /\ [][NextScore]_vars

----------------------------------------------------------------------------
(* formatContextForPrompt, document by document (specification SpecFormat). *)
(* A string is taken by its length, which is all the function's control    *)
(* flow reads; the length of a template literal is the sum of the lengths  *)
(* of its parts.                                                           *)

MaxDocs == 6

MAX_TOTAL_CHARS == 8000

MAX_PER_DOC == 1500

(* The text returned for a result without documents. *)
NoDocumentsLength == 227

(* The heading the context starts with. *)
HeadingLength == 144

(* String(n).length of a number below 1000. *)
Digits(n) == IF n < 10 THEN 1 ELSE IF n < 100 THEN 2 ELSE 3

(* The documents of a result: title, sourceURL and content by length. *)
FormatDocs ==
    {[title |-> 20, sourceURL |-> 60, content |-> c, sourcePriority |-> SDK] :
        c \in {200, 1500, 3000}}

RECURSIVE SeqsUpTo(_, _)
SeqsUpTo(set, n) ==
    IF n = 0 THEN {<<>>}
    ELSE LET shorter == SeqsUpTo(set, n - 1) IN
         shorter \cup {Append(q, x) : q \in {r \in shorter : Len(r) = n - 1}, x \in set}

(* doc.content.slice(0, MAX_PER_DOC).length *)
SnippetLength(doc) == Min(doc.content, MAX_PER_DOC)

(* block.length for the document at index i (from 0): the fixed text of    *)
(* the template is "## Source [", "] - ", "\nURL: ", "\nPriority: ", four  *)
(* line feeds before the snippet and "\n\n---\n\n" after it.              *)
BlockLength(i, doc) ==
    11 + Digits(i + 1) + 4 + doc.title + 6 + doc.sourceURL
       + 11 + Digits(doc.sourcePriority) + 4 + SnippetLength(doc) + 7

NewFormatter(documents) ==
    [pc |-> "called", documents |-> documents, i |-> 0, used |-> 0,
     context |-> 0, blocks |-> <<>>]

(* From the call to the loop: the early return for an empty result, or     *)
(* used = 0 and context = the heading.                                     *)
FormatStart ==
    /\ formatter.pc = "called"
    /\ formatter' = IF Len(formatter.documents) = 0
                    THEN [formatter EXCEPT !.pc = "returned",
                                           !.context = NoDocumentsLength]
                    ELSE [formatter EXCEPT !.pc = "loop",
                                           !.context = HeadingLength]
    /\ UNCHANGED <<lifecycleVars, snapshot, repoArchiveCache, requests, ingest, chunker>>

(* One iteration of the for loop that does not break. *)
FormatStep ==
    /\ formatter.pc = "loop"
    /\ formatter.i < Len(formatter.documents)
    /\ ~(formatter.used >= MAX_TOTAL_CHARS)
    /\ LET block == BlockLength(formatter.i, formatter.documents[formatter.i + 1]) IN
       formatter' = [formatter EXCEPT
                        !.context = @ + block,
                        !.used = @ + block,
                        !.blocks = Append(@, block),
                        !.i = @ + 1]
    /\ UNCHANGED <<lifecycleVars, snapshot, repoArchiveCache, requests, ingest, chunker>>

(* The loop ends, by its condition or by the break, and context is         *)
(* returned.                                                               *)
FormatReturn ==
    /\ formatter.pc = "loop"
    /\ \/ ~(formatter.i < Len(formatter.documents))
       \/ formatter.used >= MAX_TOTAL_CHARS
    /\ formatter' = [formatter EXCEPT !.pc = "returned"]
    /\ UNCHANGED <<lifecycleVars, snapshot, repoArchiveCache, requests, ingest, chunker>>

(* formatContextForPrompt(result) has been called. *)
InitFormat ==
    /\ documentStore = <<>>
    /\ chunkStore = <<>>
    /\ chunkArr = 0
    /\ isInitialized = FALSE
    /\ initPromise = 0
    /\ embeddings = FALSE
    /\ useEmbeddings = FALSE
    /\ snapshot = Absent
    /\ runs = <<>>
    /\ calls = <<>>
    /\ query = IdleQuery
    /\ adds = <<>>
    /\ repoArchiveCache = {}
    /\ requests = <<>>
    /\ ingest = IdleIngest
    /\ chunker = IdleChunker
    /\ \E documents \in SeqsUpTo(FormatDocs, MaxDocs) :
          formatter = NewFormatter(documents)

NextFormat ==
    \/ FormatStart
    \/ FormatStep
    \/ FormatReturn

SpecFormat == InitFormat /\ [][NextFormat]_vars

----------------------------------------------------------------------------
(* Claims C1 - C10 *)

Pending(c) == calls[c].st = "pending"

Finished(r) == runs[r].pc \in {"done", "failed"}

NoForcedCall == \A c \in 1..Len(calls) : ~calls[c].force

EnsureCalls == {c \in 1..Len(calls) : calls[c].op = "ensure"}

(* C1: while the only initialization requests are non-forced, the calls of *)
(* ensureRAGInitialized made before Ready share one run: at most one run   *)
(* is executing, every pending ensure caller awaits that run, and a caller *)
(* that has settled through a run settled after the run finished.          *)
C1_SingleFlightEnsure ==
    NoForcedCall =>
        /\ Cardinality(ActiveRuns) <= 1
        /\ \A c \in EnsureCalls :
              /\ Pending(c) => calls[c].run \in ActiveRuns
              /\ (~Pending(c) /\ calls[c].run /= 0) => Finished(calls[c].run)
        /\ \A c, d \in EnsureCalls :
              (Pending(c) /\ Pending(d)) => calls[c].run = calls[d].run

(* Two ensure callers arrived before Ready, one run was started, and both  *)
(* have settled with it.                                                   *)
C1_Witness ==
    /\ Len(calls) = 2
    /\ Len(runs) = 1
    /\ \A c \in 1..2 : calls[c].op = "ensure" /\ calls[c].run = 1 /\ calls[c].st = "resolved"
    /\ runs[1].pc = "done"

(* C2: at most one initialization run is executing at any time. *)
C2_AtMostOneRunInFlight == Cardinality(ActiveRuns) <= 1

(* The chunks of the documents, each carrying the vector of its own text   *)
(* when embedded is TRUE and none otherwise.                               *)
CompleteChunks(docs, embedded) ==
    LET chunks == ChunksOf(docs, 1) IN
    [k \in 1..Len(chunks) |->
        IF embedded THEN [chunks[k] EXCEPT !.embedding = Embed(chunks[k].content)]
        ELSE chunks[k]]

IsPrefix(s, t) == Len(s) <= Len(t) /\ SubSeq(t, 1, Len(s)) = s

(* C3: whenever the ready flag is true, the stores are both empty, or the  *)
(* documents are those of a completed run (with the user documents added   *)
(* since) and the chunk store holds all of their chunks, each with its     *)
(* embedding in embedding mode.                                            *)
C3_NoTornIndexWhenReady ==
    isInitialized =>
        \/ documentStore = <<>> /\ chunkStore = <<>>
        \/ /\ \E r \in 1..Len(runs) :
                 runs[r].pc = "done" /\ IsPrefix(runs[r].allDocs, documentStore)
           /\ chunkStore = CompleteChunks(documentStore, useEmbeddings /\ embeddings)

(* C4: a query that was suspended in embedQuery returns documents of the   *)
(* index it read its chunks from (the same documents, whether fetched or   *)
(* read back from the snapshot), or it has scored the chunks of the index  *)
(* of now.                                                                 *)
C4_QueryUsesOneSnapshot ==
    [][(query.pc = "embedQuery" /\ query'.pc = "done") =>
          \/ Range(Stringify(query'.result.documents)) \subseteq Range(Stringify(query.seen))
          \/ query.poolArr = chunkArr /\ query.pool = chunkStore]_vars

(* C5: the step in which a run fails leaves the ready flag false and       *)
(* initPromise null and rejects every caller awaiting the run with the     *)
(* run's error; a call that then asks for initialization starts a new run  *)
(* and awaits that one.                                                    *)
C5_FailureRevertsAndRetries ==
    [][/\ \A r \in 1..Len(runs) :
             (~Finished(r) /\ runs'[r].pc = "failed") =>
                 /\ ~isInitialized'
                 /\ initPromise' = 0
                 /\ \A c \in 1..Len(calls) :
                       (calls[c].run = r /\ Pending(c)) =>
                           calls'[c].st = "rejected" /\ calls'[c].error = r
       /\ (Len(calls') = Len(calls) + 1 /\ ~isInitialized /\ initPromise = 0) =>
             /\ Len(runs') = Len(runs) + 1
             /\ calls'[Len(calls')].run = Len(runs')
             /\ calls'[Len(calls')].st = "pending"
             /\ runs'[Len(runs')].pc \in {"load", "fetch"}]_vars

(* A run failed, its caller was rejected with its error, and a later call  *)
(* awaits a run started after the failure.                                 *)
C5_Witness ==
    /\ Len(calls) = 2 /\ Len(runs) = 2
    /\ runs[1].pc = "failed"
    /\ calls[1].st = "rejected" /\ calls[1].error = 1
    /\ calls[2].run = 2 /\ ~calls[2].force

(* C6: a call of ensureRAGInitialized or of a non-forced initializeRAG     *)
(* made while the ready flag is true returns at once, starts no run and    *)
(* changes nothing of the index state.                                     *)
C6_ReadyCallIsNoOp ==
    [][(Len(calls') = Len(calls) + 1 /\ isInitialized /\ ~calls'[Len(calls')].force) =>
          /\ UNCHANGED <<documentStore, chunkStore, chunkArr, isInitialized,
                         initPromise, embeddings, useEmbeddings, runs, snapshot>>
          /\ calls'[Len(calls')].run = 0
          /\ calls'[Len(calls')].st = "resolved"]_vars

(* A non-forced initializeRAG returned at once on a Ready, populated index. *)
C6_Witness ==
    /\ isInitialized
    /\ documentStore /= <<>>
    /\ \E c \in 1..Len(calls) :
          calls[c].op = "initialize" /\ ~calls[c].force /\ calls[c].run = 0

(* C7: a query started while the ready flag is false returns the empty     *)
(* result in that step, without an error, and changes nothing of the index *)
(* state or the snapshot.                                                  *)
C7_QueryBeforeReadyIsEmpty ==
    [][(query.pc /= "embedQuery" /\ query' /= query /\ ~isInitialized) =>
          /\ query'.pc = "done"
          /\ query'.result = [documents |-> <<>>, scores |-> <<>>]
          /\ UNCHANGED <<indexVars, snapshot>>]_vars

(* A query has returned although no run has ever completed, while the      *)
(* stores already hold documents and chunks.                               *)
C7_Witness ==
    /\ query.pc = "done"
    /\ \A r \in 1..Len(runs) : runs[r].pc /= "done"
    /\ documentStore /= <<>> /\ chunkStore /= <<>>

(* C8: queryRAG never rejects. *)
C8_QueryNeverThrows == query.pc /= "threw"

(* C9: a non-forced ingestAllSources that finds a snapshot returns the     *)
(* snapshot's list, fetches no source and leaves the snapshot as it is.    *)
C9_CacheHitIsIdempotent ==
    [][\A r \in 1..Len(runs) :
          (runs[r].pc = "load" /\ runs'[r].pc /= "load" /\ snapshot.state = "json") =>
              /\ runs'[r].allDocs = snapshot.text
              /\ runs'[r].cached
              /\ runs'[r].fetches = 0
              /\ runs'[r].pc /= "fetch"
              /\ documentStore' = snapshot.text
              /\ snapshot' = snapshot]_vars

(* Two non-forced ingestions were served from the snapshot and returned    *)
(* the same, non-empty list without a fetch.                               *)
C9_Witness ==
    /\ Len(runs) = 2
    /\ runs[1].cached /\ runs[2].cached
    /\ runs[1].allDocs = runs[2].allDocs
    /\ runs[1].allDocs /= <<>>
    /\ runs[1].fetches = 0 /\ runs[2].fetches = 0
    /\ snapshot.text = runs[2].allDocs

(* C10: when a non-cached ingestAllSources returns, the snapshot holds     *)
(* exactly the returned list.                                              *)
C10_SnapshotWrittenBeforeReturn ==
    [][\A r \in 1..Len(runs) :
          (runs[r].pc = "save" /\ runs'[r].pc /= "save") =>
              /\ snapshot'.state = "json"
              /\ loadCachedDocuments(snapshot') = Stringify(runs[r].allDocs)]_vars

----------------------------------------------------------------------------
(* Claims C11 - C20 *)

(* C11: when the snapshot write of a run fails (the file does not hold the *)
(* run's list afterwards), the run fails in that step: the ready flag is   *)
(* false, initPromise is null and every caller awaiting the run is         *)
(* rejected.                                                               *)
C11_WriteFailureIsSurfaced ==
    [][\A r \in 1..Len(runs) :
          (/\ runs[r].pc = "save"
           /\ runs'[r].pc /= "save"
           /\ snapshot' /= Written(runs[r].allDocs)) =>
              /\ runs'[r].pc = "failed"
              /\ ~isInitialized'
              /\ \A c \in 1..Len(calls) :
                    (calls[c].run = r /\ Pending(c)) => calls'[c].st = "rejected"]_vars

(* The documents a fetch pass at time t owes for the catalog entries k to  *)
(* upto: one per entry that did not fail, in catalog order, carrying the   *)
(* entry's priority tier.                                                  *)
RECURSIVE DocsOfSources(_, _, _, _)
DocsOfSources(k, upto, failed, t) ==
    IF k > upto THEN <<>>
    ELSE (IF IngestCatalog[k].id \in failed THEN <<>>
          ELSE << [id |-> IngestCatalog[k].id,
                   content |-> ContentLength(IngestCatalog[k].id),
                   sourcePriority |-> IngestCatalog[k].priority,
                   lastUpdated |-> [form |-> "Date", t |-> t]] >>)
         \o DocsOfSources(k + 1, upto, failed, t)

(* C12: a non-cached ingestAllSources never aborts on a failing source:    *)
(* during the pass the list holds exactly the documents of the sources     *)
(* tried so far that did not fail, and the pass ends only after the last   *)
(* catalog entry was tried, with the documents of all non-failing sources. *)
C12_PartialIngestionTolerance ==
    /\ ingest.pc /= "threw"
    /\ ingest.pc = "fetch" =>
          /\ ingest.k <= Len(IngestCatalog)
          /\ ingest.allDocs = DocsOfSources(1, ingest.k - 1, ingest.failed, ingest.n)
    /\ (ingest.pc \in {"save", "returned"} /\ ~ingest.cached) =>
          /\ ingest.k = Len(IngestCatalog) + 1
          /\ ingest.allDocs =
                DocsOfSources(1, Len(IngestCatalog), ingest.failed, ingest.n)

(* A pass has returned in which the first entry of a repository, and the   *)
(* pdf source, failed, and the sources after them delivered.               *)
C12_Witness ==
    /\ ingest.pc = "returned"
    /\ ~ingest.cached
    /\ ingest.failed = {2, 4}
    /\ [i \in 1..Len(ingest.allDocs) |-> ingest.allDocs[i].id] = <<1, 3, 5>>

(* C13: a fetchGitHubContent call for a repository of which the process    *)
(* has already downloaded an archive asks for no archive download and      *)
(* leaves the archive cache as it is.                                      *)
C13_ArchiveDownloadedOnce ==
    [][(/\ ingest.pc = "fetch"
        /\ ingest'.k = ingest.k + 1
        /\ IngestCatalog[ingest.k].type = "github"
        /\ \E b \in Branches : <<IngestCatalog[ingest.k].repo, b>> \in repoArchiveCache) =>
           /\ requests' = <<>>
           /\ repoArchiveCache' = repoArchiveCache]_vars

C15_UniqueDocumentIds ==
    \A i, j \in 1..Len(documentStore) :
        documentStore[i].id = documentStore[j].id => i = j

(* The chunks stitched back: the first chunk whole, each later chunk       *)
(* without its first overlap characters.                                   *)
RECURSIVE Stitch(_, _, _)
Stitch(chunks, k, overlap) ==
    IF k > Len(chunks) THEN <<>>
    ELSE (IF k = 1 THEN chunks[k]
          ELSE SubSeq(chunks[k], overlap + 1, Len(chunks[k])))
         \o Stitch(chunks, k + 1, overlap)

(* C16: for overlap < size, chunkText returns one chunk for every i with   *)
(* i * (size - overlap) < len(t); chunk i is the window of t from          *)
(* i * (size - overlap) to min(i * (size - overlap) + size, len(t)), at    *)
(* most size long; the end of a chunk equals the start of the next as far  *)
(* as they overlap; and the stitched chunks are t (no chunk for the empty  *)
(* text).                                                                  *)
C16_ChunksCoverText ==
    (chunker.pc = "returned" /\ chunker.overlap < chunker.chunkSize) =>
        LET t == chunker.text
            size == chunker.chunkSize
            step == chunker.chunkSize - chunker.overlap
            chunks == chunker.chunks
        IN /\ \A i \in 0..MaxLen : (i * step < Len(t)) <=> (i + 1 \in 1..Len(chunks))
           /\ \A i \in 0..(Len(chunks) - 1) :
                 /\ chunks[i + 1] = SubSeq(t, i * step + 1, Min(i * step + size, Len(t)))
                 /\ Len(chunks[i + 1]) <= size
           /\ \A i \in 1..(Len(chunks) - 1) :
                 SubSeq(chunks[i], step + 1, Len(chunks[i]))
                    = SubSeq(chunks[i + 1], 1, Len(chunks[i]) - step)
           /\ Stitch(chunks, 1, chunker.overlap) = t
           /\ (t = <<>>) => (chunks = <<>>)

(* A text was cut into three overlapping chunks, the last one shorter than *)
(* the size.                                                               *)
C16_Witness ==
    /\ chunker.pc = "returned"
    /\ chunker.text = <<"a", "b", "b", "a">>
    /\ chunker.chunkSize = 3
    /\ chunker.overlap = 2
    /\ chunker.chunks = << <<"a", "b", "b">>, <<"b", "b", "a">>, <<"b", "a">>, <<"a">> >>

(* C17: with overlap >= size on a non-empty text chunkText does not go on  *)
(* pushing chunks: it never holds more chunks than the text has            *)
(* characters.                                                             *)
C17_BadOverlapFailsFast ==
    (/\ chunker.pc /= "idle"
     /\ chunker.overlap >= chunker.chunkSize
     /\ chunker.text /= <<>>) =>
        Len(chunker.chunks) <= Len(chunker.text)

(* The query named a vendor and the index holds a chunk of that vendor's   *)
(* tier.                                                                   *)
VendorChunksExist ==
    /\ query.vendorHint /= 0
    /\ \E k \in 1..Len(chunkStore) : chunkStore[k].sourcePriority = query.vendorHint

(* C18: when the query names a vendor and the index holds chunks of the    *)
(* vendor's tier, exactly those chunks are scored and every returned       *)
(* document is of that tier.                                               *)
C18_VendorRestriction ==
    (query.pc = "done" /\ VendorChunksExist) =>
        /\ \A k \in 1..Len(query.scored) :
              query.scored[k].chunk.sourcePriority = query.vendorHint
        /\ {query.scored[k].chunk : k \in 1..Len(query.scored)}
              = {chunkStore[k] : k \in {m \in 1..Len(chunkStore) :
                                          chunkStore[m].sourcePriority = query.vendorHint}}
        /\ \A i \in 1..Len(query.result.documents) :
              query.result.documents[i].sourcePriority = query.vendorHint

(* The query "limelight" returned the Limelight document alone, whose only *)
(* chunk does not hold the word, although the SDK document holds it twice. *)
C18_Witness ==
    /\ query.pc = "done"
    /\ query.query = <<"limelight">>
    /\ documentStore = << ScoreDoc(1, SDK, << <<"limelight", "limelight">> >>),
                          ScoreDoc(2, LIMELIGHT, << <<"motor">> >>) >>
    /\ query.result.documents = << documentStore[2] >>

(* C19: when the query names a vendor and the index holds no chunk of the  *)
(* vendor's tier, every chunk is scored and the result is the one a query  *)
(* without a vendor hint gets from these scores.                           *)
C19_NoVendorChunksScoresFullSet ==
    (query.pc = "done" /\ query.vendorHint /= 0 /\ ~VendorChunksExist) =>
        /\ [k \in 1..Len(query.scored) |-> query.scored[k].chunk] = chunkStore
        /\ query.result =
              Result(Rank(query.scored, 0,
                          IF query.topK = 0 THEN DEFAULT_TOP_K ELSE query.topK,
                          documentStore, chunkStore))

(* C20: of two scored chunks with the same text, the one of the lower tier *)
(* number has a weighted score at least as great as the other's.           *)
C20_PriorityWeightingMonotonic ==
    query.pc = "done" =>
        \A i, j \in 1..Len(query.scored) :
            (/\ query.scored[i].chunk.content = query.scored[j].chunk.content
             /\ query.scored[i].chunk.sourcePriority < query.scored[j].chunk.sourcePriority) =>
                query.scored[i].score >= query.scored[j].score

----------------------------------------------------------------------------
(* Claims C21 - C30 *)

(* Every scored chunk of the finished query has a score of zero or less. *)
AllScoresZero ==
    /\ query.pc = "done"
    /\ Len(query.scored) > 0
    /\ \A k \in 1..Len(query.scored) : query.scored[k].score <= 0

(* C21: when every scored chunk has a score of zero or less, the query     *)
(* result is empty.                                                        *)
C21_AllZeroGivesEmpty ==
    AllScoresZero => query.result = EmptyResult

(* C21, amended: when every scored chunk has a score of zero or less, the  *)
(* result is empty unless the query names a vendor whose tier has chunks   *)
(* in the index; then the result is the vendor fallback, whose entries all *)
(* have the score 1.                                                       *)
C21_AllZeroGivesEmptyOrFallback ==
    AllScoresZero =>
        IF VendorChunksExist
        THEN /\ Len(query.result.documents) > 0
             /\ \A i \in 1..Len(query.result.scores) : query.result.scores[i] = One
        ELSE query.result = EmptyResult

(* The query "roadrunner" on an index without a Road Runner document and   *)
(* without the word: every chunk was scored, each with zero, and nothing   *)
(* was returned.                                                           *)
C21_Witness ==
    /\ AllScoresZero
    /\ query.query = <<"roadrunner">>
    /\ Len(query.scored) = Len(chunkStore)
    /\ Len(chunkStore) = 3
    /\ query.result = EmptyResult

(* The topK the finished query used: DEFAULT_TOP_K when it gave none. *)
UsedTopK == IF query.topK = 0 THEN DEFAULT_TOP_K ELSE query.topK

(* The query named a vendor and the index holds a document of the vendor's *)
(* tier that has a chunk in the chunk store.                               *)
VendorDocumentIndexed ==
    /\ query.vendorHint /= 0
    /\ \E d \in 1..Len(documentStore) :
          /\ documentStore[d].sourcePriority = query.vendorHint
          /\ \E k \in 1..Len(chunkStore) :
                chunkStore[k].documentId = documentStore[d].id

(* C22: on a Ready index that holds a document of the named vendor's tier  *)
(* with a chunk, the result of a vendor query is not empty, has at most    *)
(* topK documents, and all of them are of the vendor's tier.               *)
C22_VendorQueryNeverEmpty ==
    (query.pc = "done" /\ isInitialized /\ VendorDocumentIndexed) =>
        /\ Len(query.result.documents) \in 1..UsedTopK
        /\ \A i \in 1..Len(query.result.documents) :
              query.result.documents[i].sourcePriority = query.vendorHint

(* The query "limelight" with topK = 1 on an index whose Limelight         *)
(* document has two chunks, neither holding a word of the query: both      *)
(* scored zero and the document was returned once, with the score 1.       *)
C22_Witness ==
    /\ AllScoresZero
    /\ query.query = <<"limelight">>
    /\ query.topK = 1
    /\ documentStore[1].sourcePriority = LIMELIGHT
    /\ Len(documentStore[1].content) = 2
    /\ documentStore[2].sourcePriority = SDK
    /\ query.result = [documents |-> <<documentStore[1]>>, scores |-> <<One>>]

(* C23: a finished query returned at most topK documents and as many       *)
(* scores; the score at each index is the score 1 of the vendor fallback   *)
(* or the score of a scored chunk of the document at that index; and the   *)
(* scores do not increase along the list.                                  *)
C23_ResultShape ==
    query.pc = "done" =>
        LET documents == query.result.documents
            scores == query.result.scores
        IN /\ Len(documents) <= UsedTopK
           /\ Len(scores) = Len(documents)
           /\ \A i \in 1..Len(documents) :
                 \/ scores[i] = One
                 \/ \E k \in 1..Len(query.scored) :
                       /\ query.scored[k].chunk.documentId = documents[i].id
                       /\ query.scored[k].score = scores[i]
           /\ \A i \in 1..Len(scores) : \A j \in i..Len(scores) :
                 scores[i] >= scores[j]

(* A query without topK returned both documents, the second document of    *)
(* the store first because its score is the greater one.                   *)
C23_Witness ==
    /\ query.pc = "done"
    /\ query.topK = 0
    /\ query.result.documents = <<documentStore[2], documentStore[1]>>
    /\ query.result.scores[1] > query.result.scores[2]
    /\ query.result.scores[2] > 0

(* The chunks that survive the cut: the first topK of the scored chunks    *)
(* with a positive score, in descending order of score.                    *)
TopChunks ==
    LET sorted == SortDesc(query.scored, 1, <<>>)
        positive == SelectIdx(sorted, {k \in 1..Len(sorted) : sorted[k].score > 0}, 1)
    IN SubSeq(positive, 1, Min(UsedTopK, Len(positive)))

(* C24: in the result of a finished query no document id appears twice,    *)
(* and a document with surviving chunks has the greatest of their scores.  *)
C24_CollapsedToDocuments ==
    query.pc = "done" =>
        LET documents == query.result.documents
            scores == query.result.scores
        IN /\ \A i, j \in 1..Len(documents) :
                 documents[i].id = documents[j].id => i = j
           /\ \A i \in 1..Len(documents) :
                 LET mine == {k \in 1..Len(TopChunks) :
                                TopChunks[k].chunk.documentId = documents[i].id}
                 IN mine /= {} =>
                       /\ \E k \in mine : TopChunks[k].score = scores[i]
                       /\ \A k \in mine : TopChunks[k].score <= scores[i]

(* C25: for a result with documents, the returned context is no longer     *)
(* than the total budget and no block in it is longer than the             *)
(* per-document cap.                                                       *)
C25_ContextLengthBounded ==
    (formatter.pc = "returned" /\ Len(formatter.documents) > 0) =>
        /\ formatter.context <= MAX_TOTAL_CHARS
        /\ \A k \in 1..Len(formatter.blocks) : formatter.blocks[k] <= MAX_PER_DOC

(* The chunk is in the store, with or without an embedding. *)
ChunkStored(chunk, store) ==
    \E k \in 1..Len(store) :
        /\ store[k].documentId = chunk.documentId
        /\ store[k].chunkIndex = chunk.chunkIndex
        /\ store[k].content = chunk.content
        /\ store[k].sourcePriority = chunk.sourcePriority

(* C26: in the step in which addUserRepository completes, every document   *)
(* it fetched is in the document store and every chunk of those documents  *)
(* is in the chunk store.                                                  *)
C26_AddedDocumentsAreIndexed ==
    [][\A a \in 1..Len(adds) :
          (adds[a].pc /= "done" /\ adds'[a].pc = "done") =>
              \A i \in 1..Len(adds'[a].userDocs) :
                  LET doc == adds'[a].userDocs[i]
                      chunks == documentToChunks(doc)
                  IN /\ doc \in Range(documentStore')
                     /\ \A k \in 1..Len(chunks) : ChunkStored(chunks[k], chunkStore')]_vars

(* C27: every chunk of the chunk store has an owning document in the       *)
(* document store, the one documentStore.find returns for its documentId,  *)
(* and that document has the tier recorded in the chunk.  (The title and   *)
(* the source URL of a document are fixed by its id.)                      *)
C27_ReferentialIntegrity ==
    \A k \in 1..Len(chunkStore) :
        LET found == FindDoc(documentStore, chunkStore[k].documentId) IN
        /\ found /= <<>>
        /\ found[1].sourcePriority = chunkStore[k].sourcePriority

(* C28: getRAGStatus reports initializing exactly when an initialization   *)
(* run is executing, and never initialized while a run is executing.       *)
C28_StatusAccurate ==
    /\ getRAGStatus.initializing <=> ActiveRuns /= {}
    /\ ~(getRAGStatus.initialized /\ ActiveRuns /= {})

(* C29: when getRAGStatus reports a Ready index in semantic mode, every    *)
(* chunk of the chunk store carries an embedding.                          *)
C29_SemanticIndexFullyEmbedded ==
    (getRAGStatus.initialized /\ getRAGStatus.searchMode = "semantic") =>
        getRAGStatus.embeddedChunks = getRAGStatus.chunkCount

(* C30: the only step that takes the ready flag from true to false is a    *)
(* call of initializeRAG with force.                                       *)
C30_ReadyIsStable ==
    [][(isInitialized /\ ~isInitialized') =>
          /\ Len(calls') = Len(calls) + 1
          /\ calls'[Len(calls')].op = "initialize"
          /\ calls'[Len(calls')].force]_vars

====
